---- MODULE Spec2Model ----
(***************************************************************************)
(* A model of gftt/metrics.py: the off-ice and synthetic-shift error       *)
(* estimators (off_ice_errors, syn_shift_errors) and the synthetic offset  *)
(* generator / applier (create_synthetic_offset, apply_synthetic_offset).  *)
(*                                                                         *)
(* Conventions                                                             *)
(*  - A 1-D numpy array is a sequence.  A clipped raster is given already  *)
(*    in row-major (flattened) order: boolean-mask indexing and flatten()  *)
(*    both walk the array in that order.                                   *)
(*  - Input rasters are position coded: the x component of pixel p holds    *)
(*    either the no-data sentinel or the value p, the y component the      *)
(*    sentinel or -p, so the pixel a value came from can be read off it.   *)
(*  - Densities are positive fixed-point numbers (integers); the sigma     *)
(*    multiplier e^(sigma^2/2) is held in thousandths.                     *)
(*  - Pixel shifts are held in tenths of a pixel, resampled intensities in *)
(*    hundredths of an intensity unit.                                     *)
(***************************************************************************)
EXTENDS Integers, Sequences, FiniteSets, TLC

VARIABLES pc,        \* position of the running call
          fn,        \* the function that was called
          args,      \* its arguments
          loc,       \* its local variables (and, at "returned", its results)
          exc,       \* the exception it raised, if any
          img,       \* the raster image file on disk (offset functions)
          parts      \* thresholding of one fixed sample: sigma -> thres_idx

vars == <<pc, fn, args, loc, exc, img, parts>>

(***************************************************************************)
(* Bounds of the model.                                                    *)
(***************************************************************************)
MaxPix == 3      \* pixels inside the clipping polygon
MaxCap == 2      \* largest max_n tried
MaxDens == 2     \* number of distinct density levels a KDE may return
MaxSigma == 2    \* largest sigma level tried
MaxDim == 3      \* largest image height / width
MaxBlock == 2    \* largest block_size tried

NoData == -9999

Sigmas == 0..MaxSigma
Caps == 1..MaxCap
DensVals == 1..MaxDens

(***************************************************************************)
(* Optional values (Python's None).                                        *)
(***************************************************************************)
None == [some |-> FALSE, val |-> <<>>]
Some(x) == [some |-> TRUE, val |-> x]

NoExc == [type |-> "None", origin |-> "none"]
Exc(t, o) == [type |-> t, origin |-> o]

(***************************************************************************)
(* Sequence helpers.                                                       *)
(***************************************************************************)
RECURSIVE SeqMax(_)
SeqMax(s) == IF Len(s) = 1 THEN s[1]
             ELSE LET m == SeqMax(Tail(s)) IN IF s[1] >= m THEN s[1] ELSE m

\* a[mask]: the elements of a at the positions where mask is TRUE, in order
RECURSIVE BoolIndex(_, _)
BoolIndex(a, mask) ==
    IF a = <<>> THEN <<>>
    ELSE IF mask[1] THEN <<a[1]>> \o BoolIndex(Tail(a), Tail(mask))
         ELSE BoolIndex(Tail(a), Tail(mask))

\* a > -9998, elementwise
ValidMask(a) == [i \in 1..Len(a) |-> a[i] > -9998]

\* a[a > -9998]
DropNoData(a) == BoolIndex(a, ValidMask(a))

(***************************************************************************)
(* Input rasters, as clip() returns them for a polygon covering n pixels.  *)
(***************************************************************************)
ClippedX(n) == {[p \in 1..n |-> IF p \in H THEN NoData ELSE p] : H \in SUBSET (1..n)}
ClippedY(n) == {[p \in 1..n |-> IF p \in H THEN NoData ELSE 0 - p] : H \in SUBSET (1..n)}

(***************************************************************************)
(* np.e ** (thres_sigma ** 2 / 2), in thousandths.                         *)
(***************************************************************************)
ThresMultiplier(sigma) ==
    CASE sigma * sigma = 0  -> 1000
      [] sigma * sigma = 1  -> 1649
      [] sigma * sigma = 4  -> 7389
      [] sigma * sigma = 9  -> 90017
      [] sigma * sigma = 16 -> 2980958
      [] sigma * sigma = 25 -> 268337287

\* variant: z > thres, a density equal to the threshold is an outlier
ThresIdxStrict(z, sigma) ==
    [i \in 1..Len(z) |-> z[i] * ThresMultiplier(sigma) > SeqMax(z) * 1000]

\* variant: thres = max(z) * thres_multiplier
ThresIdxInverted(z, sigma) ==
    [i \in 1..Len(z) |-> z[i] * 1000 >= SeqMax(z) * ThresMultiplier(sigma)]

\* thres = max(z) / thres_multiplier; thres_idx = z >= thres
\* (the division is exact: z >= max/m  <=>  z*m >= max, as m > 0)
ThresIdx(z, sigma) ==
    [i \in 1..Len(z) |-> z[i] * ThresMultiplier(sigma) >= SeqMax(z) * 1000]

(***************************************************************************)
(* gaussian_kde(xy)(xy): the densities a fit may return for n points.      *)
(* scipy refuses an empty dataset, and a degenerate one (singular          *)
(* covariance) may fail too; otherwise every point gets a positive density.*)
(***************************************************************************)
KdeValues(n) == [1..n -> DensVals]
KdeMayFail(n) == TRUE
KdeMustFail(n) == n = 0

(***************************************************************************)
(* rng.choice(xy, size=k, replace=False, axis=1): the column selections.   *)
(***************************************************************************)
\* variant: replace=True
ChoiceWithReplacement(n, k) == [1..k -> 1..n]

Choice(n, k) == {f \in [1..k -> 1..n] : \A i, j \in 1..k : i # j => f[i] # f[j]}

Take(a, f) == [i \in 1..Len(f) |-> a[f[i]]]

(***************************************************************************)
(* The frame of a call of one of the two error estimators.                 *)
(***************************************************************************)
EmptyLoc == [case |-> 0, vx |-> <<>>, vy |-> <<>>, v |-> <<>>,
             vx_full |-> None, vy_full |-> None,
             ref_vx |-> <<>>, ref_vy |-> <<>>,
             diff_vx |-> <<>>, diff_vy |-> <<>>,
             z |-> <<>>, thres_idx |-> <<>>, bins |-> <<>>]

NoArgs == [vfile |-> None, vxfile |-> None, vyfile |-> None,
           thres_sigma |-> 0, plot |-> FALSE, ax |-> "None", max_n |-> 1]

NoImg == [height |-> 0, width |-> 0, data |-> <<>>]

Init == /\ pc = "idle"
        /\ fn = "none"
        /\ args = NoArgs
        /\ loc = EmptyLoc
        /\ exc = NoExc
        /\ img = NoImg
        /\ parts = <<>>

(***************************************************************************)
(* off_ice_errors                                                          *)
(***************************************************************************)
OffIceArgs ==
    UNION {
      \* vxfile + vyfile (vector mode), vfile (scalar mode, with or without
      \* a lone vxfile), and neither
      {[vfile |-> f, vxfile |-> x, vyfile |-> y] :
          f \in {None}, x \in {Some(r) : r \in ClippedX(n)},
          y \in {Some(r) : r \in ClippedY(n)}}
      \cup
      {[vfile |-> f, vxfile |-> x, vyfile |-> y] :
          f \in {Some(r) : r \in ClippedX(n)},
          x \in {None, Some([p \in 1..n |-> p])}, y \in {None}}
      \cup
      {[vfile |-> f, vxfile |-> x, vyfile |-> y] :
          f \in {None}, x \in {None, Some([p \in 1..n |-> p])}, y \in {None}}
      : n \in 0..MaxPix }

\* lines 45-60: clip, drop no-data, choose the case
OffIceFilter(a) ==
    IF a.vxfile.some /\ a.vyfile.some
    THEN [EmptyLoc EXCEPT !.case = 1,
                          !.vx = DropNoData(a.vxfile.val),
                          !.vy = DropNoData(a.vyfile.val)]
    ELSE IF a.vfile.some
    THEN [EmptyLoc EXCEPT !.case = 2, !.v = DropNoData(a.vfile.val)]
    ELSE EmptyLoc

OffIceCall ==
    /\ pc = "idle"
    /\ \E f \in OffIceArgs, s \in Sigmas, pl \in BOOLEAN,
          ax \in {"None", "ax"}, cap \in Caps :
         LET a == [vfile |-> f.vfile, vxfile |-> f.vxfile, vyfile |-> f.vyfile,
                   thres_sigma |-> s, plot |-> pl, ax |-> ax, max_n |-> cap]
             l == OffIceFilter(a)
         IN /\ fn' = "off_ice_errors"
            /\ args' = a
            /\ loc' = l
            /\ IF l.case = 0
               THEN /\ pc' = "raised"
                    /\ exc' = Exc("TypeError", "module")
               ELSE /\ pc' = IF l.case = 1 THEN "sample" ELSE "hist"
                    /\ exc' = NoExc
    /\ UNCHANGED <<img, parts>>

\* lines 62-71: stack the components, subsample when more than max_n
Subsample(l, f) ==
    [l EXCEPT !.vx_full = Some(l.vx), !.vy_full = Some(l.vy),
              !.vx = Take(l.vx, f), !.vy = Take(l.vy, f)]

OffIceSample ==
    /\ pc = "sample"
    /\ IF Len(loc.vx) # Len(loc.vy)
       THEN \* np.vstack refuses rows of different length
            /\ pc' = "raised"
            /\ exc' = Exc("ValueError", "numpy")
            /\ loc' = loc
       ELSE IF Len(loc.vx) > args.max_n
       THEN /\ \E f \in Choice(Len(loc.vx), args.max_n) :
                  loc' = Subsample(loc, f)
            /\ pc' = "kde"
            /\ exc' = exc
       ELSE /\ pc' = "kde"
            /\ UNCHANGED <<loc, exc>>
    /\ UNCHANGED <<fn, args, img, parts>>

\* line 72: z = gaussian_kde(xy)(xy)
OffIceKde ==
    /\ pc = "kde"
    /\ \/ /\ ~KdeMustFail(Len(loc.vx))
          /\ \E z \in KdeValues(Len(loc.vx)) : loc' = [loc EXCEPT !.z = z]
          /\ pc' = "thres"
          /\ exc' = exc
       \/ /\ KdeMayFail(Len(loc.vx))
          /\ pc' = "raised"
          /\ exc' = Exc("ValueError", "scipy")
          /\ loc' = loc
    /\ UNCHANGED <<fn, args, img, parts>>

\* lines 74-92: threshold, (plot,) return vx, vy, z, thres_idx
OffIceThreshold ==
    /\ pc = "thres"
    /\ loc' = [loc EXCEPT !.thres_idx = ThresIdx(loc.z, args.thres_sigma)]
    /\ pc' = "returned"
    /\ UNCHANGED <<fn, args, exc, img, parts>>

\* lines 94-101: scalar mode, histogram of v ** 2
OffIceHist ==
    /\ pc = "hist"
    /\ IF ~args.plot /\ args.ax = "None"
       THEN \* ax.hist on None
            /\ pc' = "raised"
            /\ exc' = Exc("AttributeError", "interpreter")
            /\ loc' = loc
       ELSE /\ loc' = [loc EXCEPT !.bins = [i \in 1..Len(loc.v) |-> loc.v[i] * loc.v[i]]]
            /\ pc' = "returned"
            /\ exc' = exc
    /\ UNCHANGED <<fn, args, img, parts>>

(***************************************************************************)
(* syn_shift_errors                                                        *)
(***************************************************************************)
\* reference (synthetic) offset fields: x shifts positive, y shifts negative
RefFields(n) == [1..n -> 1..2]
Negated(a) == [i \in 1..Len(a) |-> 0 - a[i]]
Minus(a, b) == [i \in 1..Len(a) |-> a[i] - b[i]]

SynArgs ==
    UNION {
      {[ref_vx |-> Some(r), vx |-> Some(x), ref_vy |-> Some(Negated(r)), vy |-> Some(y)] :
          r \in RefFields(n), x \in ClippedX(n), y \in ClippedY(n)}
      \cup
      {[ref_vx |-> rx, vx |-> Some([p \in 1..n |-> p]),
        ref_vy |-> Some([p \in 1..n |-> 0 - 1]), vy |-> y] :
          rx \in {None, Some([p \in 1..n |-> 1])},
          y \in {None, Some([p \in 1..n |-> 0 - p])}}
      : n \in 0..MaxPix }

\* lines 177-193: flatten, keep the positions valid_idx selects, difference
SynFilter(a) ==
    LET valid_idx == ValidMask(a.vx.val)
        vx == BoolIndex(a.vx.val, valid_idx)
        vy == BoolIndex(a.vy.val, valid_idx)
        ref_vx == BoolIndex(a.ref_vx.val, valid_idx)
        ref_vy == BoolIndex(a.ref_vy.val, valid_idx)
    IN [EmptyLoc EXCEPT !.vx = vx, !.vy = vy, !.ref_vx = ref_vx, !.ref_vy = ref_vy,
                        !.diff_vx = Minus(vx, ref_vx), !.diff_vy = Minus(vy, ref_vy)]

SynCall ==
    /\ pc = "idle"
    /\ \E f \in SynArgs, s \in Sigmas :
         LET a == [ref_vx |-> f.ref_vx, vx |-> f.vx, ref_vy |-> f.ref_vy, vy |-> f.vy,
                   thres_sigma |-> s]
         IN /\ fn' = "syn_shift_errors"
            /\ args' = a
            /\ IF a.ref_vx.some /\ a.vx.some /\ a.ref_vy.some /\ a.vy.some
               THEN /\ loc' = SynFilter(a)
                    /\ pc' = "syn_kde"
                    /\ exc' = NoExc
               ELSE /\ loc' = EmptyLoc
                    /\ pc' = "raised"
                    /\ exc' = Exc("TypeError", "module")
    /\ UNCHANGED <<img, parts>>

\* lines 196-199: z = gaussian_kde(xy)(xy) on the stacked differences
SynKde ==
    /\ pc = "syn_kde"
    /\ \/ /\ ~KdeMustFail(Len(loc.diff_vx))
          /\ \E z \in KdeValues(Len(loc.diff_vx)) : loc' = [loc EXCEPT !.z = z]
          /\ pc' = "syn_thres"
          /\ exc' = exc
       \/ /\ KdeMayFail(Len(loc.diff_vx))
          /\ pc' = "raised"
          /\ exc' = Exc("ValueError", "scipy")
          /\ loc' = loc
    /\ UNCHANGED <<fn, args, img, parts>>

\* lines 201-216: threshold, (plot,) return diff_vx, diff_vy, z, thres_idx
SynThreshold ==
    /\ pc = "syn_thres"
    /\ loc' = [loc EXCEPT !.thres_idx = ThresIdx(loc.z, args.thres_sigma)]
    /\ pc' = "returned"
    /\ UNCHANGED <<fn, args, exc, img, parts>>

Next == \/ OffIceCall
        \/ OffIceSample
        \/ OffIceKde
        \/ OffIceThreshold
        \/ OffIceHist
        \/ SynCall
        \/ SynKde
        \/ SynThreshold

Spec == Init /\ [][Next]_vars

(***************************************************************************)
(* 2-D arrays: a shape and the elements in row-major order; rows and       *)
(* columns are numbered from 0 as in numpy.  A scalar has shape <<>>.      *)
(***************************************************************************)
Arr(shape, data) == [shape |-> shape, data |-> data]
NoArr == Arr(<<0, 0>>, <<>>)
Size(shape) == IF shape = <<>> THEN 1 ELSE shape[1] * shape[2]
Full(shape, v) == Arr(shape, [k \in 1..Size(shape) |-> v])
RowOf(shape, k) == (k - 1) \div shape[2]
ColOf(shape, k) == (k - 1) % shape[2]
At(a, r, c) == a.data[r * a.shape[2] + c + 1]

\* the element of a that numpy's broadcasting pairs with position (r, c)
BAt(a, r, c) ==
    IF a.shape = <<>> THEN a.data[1]
    ELSE At(a, IF a.shape[1] = 1 THEN 0 ELSE r, IF a.shape[2] = 1 THEN 0 ELSE c)

BDim(m, n) == IF m = n THEN m ELSE IF m = 1 THEN n ELSE IF n = 1 THEN m ELSE 0
\* the broadcast shape of two shapes; a 0 marks shapes that do not broadcast
BShape(s, t) == IF s = <<>> THEN t ELSE IF t = <<>> THEN s
                ELSE <<BDim(s[1], t[1]), BDim(s[2], t[2])>>
Broadcasts(s, t) == LET b == BShape(s, t) IN b = <<>> \/ (b[1] # 0 /\ b[2] # 0)

\* idx + shift, elementwise with broadcasting (idx is one of np.indices)
BAdd(a, b) ==
    LET sh == BShape(a.shape, b.shape)
    IN Arr(sh, [k \in 1..Size(sh) |->
                  BAt(a, RowOf(sh, k), ColOf(sh, k)) + BAt(b, RowOf(sh, k), ColOf(sh, k))])

\* np.indices(data_shape): row numbers and column numbers
IdxY(shape) == Arr(shape, [k \in 1..Size(shape) |-> RowOf(shape, k)])
IdxX(shape) == Arr(shape, [k \in 1..Size(shape) |-> ColOf(shape, k)])

(***************************************************************************)
(* The image files: a few intensity patterns on every small shape.         *)
(***************************************************************************)
Pattern(kind, r, c) ==
    CASE kind = "flat"     -> 7
      [] kind = "gradient" -> 10 * r + c
      [] kind = "checker"  -> (r + c) % 2

Images == {[height |-> h, width |-> w,
            data |-> [k \in 1..(h * w) |-> Pattern(kind, (k - 1) \div w, (k - 1) % w)]] :
             h \in 1..MaxDim, w \in 1..MaxDim, kind \in {"flat", "gradient", "checker"}}

DataShape(f) == <<f.height, f.width>>

InitOffset == /\ pc = "idle"
              /\ fn = "none"
              /\ args = NoArgs
              /\ loc = [shift_arx |-> NoArr, shift_ary |-> NoArr, shifted_val |-> NoArr]
              /\ exc = NoExc
              /\ img \in Images
              /\ parts = <<>>

(***************************************************************************)
(* create_synthetic_offset; shifts in tenths of a pixel                    *)
(***************************************************************************)
\* idx // block_size, elementwise
FloorDiv(a, b) == Arr(a.shape, [k \in 1..Len(a.data) |-> a.data[k] \div b])

\* lines 138-145; 0.1 * q + 0.1 is q + 1 tenths, 1 + q is 10 * (1 + q) tenths
\* variant: the x shift computed from the row numbers (idxy)
ShiftArxSwapped(shape, mode, block_size) ==
    LET q == FloorDiv(IdxY(shape), block_size)
    IN Arr(shape, [k \in 1..Len(q.data) |->
                     IF mode = "subpixel" THEN q.data[k] + 1 ELSE 10 * (1 + q.data[k])])

ShiftArx(shape, mode, block_size) ==
    LET q == FloorDiv(IdxX(shape), block_size)
    IN Arr(shape, [k \in 1..Len(q.data) |->
                     IF mode = "subpixel" THEN q.data[k] + 1 ELSE 10 * (1 + q.data[k])])

ShiftAry(shape, mode, block_size) ==
    LET q == FloorDiv(IdxY(shape), block_size)
    IN Arr(shape, [k \in 1..Len(q.data) |->
                     IF mode = "subpixel" THEN 0 - q.data[k] - 1 ELSE 10 * (0 - 1 - q.data[k])])

CreateSyntheticOffset ==
    /\ pc = "idle"
    /\ \E mode \in {"subpixel", "multipixel", "other"}, block_size \in 1..MaxBlock :
         /\ fn' = "create_synthetic_offset"
         /\ args' = [mode |-> mode, block_size |-> block_size]
         /\ IF mode \in {"subpixel", "multipixel"}
            THEN /\ loc' = [loc EXCEPT
                              !.shift_arx = ShiftArx(DataShape(img), mode, block_size),
                              !.shift_ary = ShiftAry(DataShape(img), mode, block_size)]
                 /\ pc' = "returned"
                 /\ exc' = NoExc
            ELSE /\ loc' = loc
                 /\ pc' = "raised"
                 /\ exc' = Exc("ValueError", "module")
    /\ UNCHANGED <<img, parts>>

(***************************************************************************)
(* apply_synthetic_offset                                                  *)
(***************************************************************************)
Clamp(x, lo, hi) == IF x < lo THEN lo ELSE IF x > hi THEN hi ELSE x
Wrap(x, lo, hi) == lo + ((x - lo) % (hi - lo + 1))

\* how mode='nearest' maps a coordinate (in tenths) onto the axis 0..n-1
\* variant: a coordinate off the axis re-enters from the other end
ExtendWrap(x, n) == Wrap(x, 0, 10 * (n - 1))
ExtendNearest(x, n) == Clamp(x, 0, 10 * (n - 1))

\* map_coordinates(data, [ys; xs], order, mode='nearest'): the intensity, in
\* hundredths, at the coordinates (y, x) given in tenths of a pixel
Interpolate(f, y, x, order) ==
    LET yc == ExtendNearest(y, f.height)
        xc == ExtendNearest(x, f.width)
        d(r, c) == f.data[r * f.width + c + 1]
    IN IF order = 0
       THEN 100 * d((yc + 5) \div 10, (xc + 5) \div 10)
       ELSE LET y0 == yc \div 10
                x0 == xc \div 10
                fy == yc % 10
                fx == xc % 10
                y1 == Clamp(y0 + 1, 0, f.height - 1)
                x1 == Clamp(x0 + 1, 0, f.width - 1)
            IN (10 - fy) * (10 - fx) * d(y0, x0) + (10 - fy) * fx * d(y0, x1)
               + fy * (10 - fx) * d(y1, x0) + fy * fx * d(y1, x1)

MapCoordinates(f, ys, xs, order) ==
    [k \in 1..Len(ys) |-> Interpolate(f, ys[k], xs[k], order)]

\* the shift arrays a caller writes by hand: one value on one of these shapes
ShiftVals == {0 - 10, 0 - 5, 0, 5, 10}
ShiftShapes(f) == {<<>>, <<1, f.width>>, <<f.height, 1>>, <<f.height, f.width>>,
                   <<f.height + 1, f.width>>}
HandShifts(f) == {Full(sh, v) : sh \in ShiftShapes(f), v \in ShiftVals}

ApplySyntheticOffset ==
    /\ \/ pc = "idle"
       \/ pc = "returned" /\ fn = "create_synthetic_offset"
    /\ \E sx \in (IF pc = "idle" THEN HandShifts(img) ELSE {loc.shift_arx}),
          sy \in (IF pc = "idle" THEN HandShifts(img) ELSE {loc.shift_ary}),
          order \in 0..1 :
         LET data_shape == DataShape(img)
             shifted_y == BAdd(Arr(data_shape, [k \in 1..Size(data_shape) |-> 10 * RowOf(data_shape, k)]), sy)
             shifted_x == BAdd(Arr(data_shape, [k \in 1..Size(data_shape) |-> 10 * ColOf(data_shape, k)]), sx)
             shifted_val == MapCoordinates(img, shifted_y.data, shifted_x.data, order)
         IN /\ fn' = "apply_synthetic_offset"
            /\ args' = [shift_arx |-> sx, shift_ary |-> sy, spline_order |-> order]
            /\ IF \/ ~Broadcasts(data_shape, sy.shape)
                  \/ ~Broadcasts(data_shape, sx.shape)
                  \/ Len(shifted_y.data) # Len(shifted_x.data)
               THEN \* idx + shift, or np.vstack, refuses the shapes
                    /\ pc' = "raised"
                    /\ exc' = Exc("ValueError", "numpy")
                    /\ loc' = [loc EXCEPT !.shifted_val = NoArr]
               ELSE IF Len(shifted_val) # Size(data_shape)
               THEN \* np.reshape refuses the size
                    /\ pc' = "raised"
                    /\ exc' = Exc("ValueError", "numpy")
                    /\ loc' = [loc EXCEPT !.shifted_val = NoArr]
               ELSE /\ pc' = "returned"
                    /\ exc' = NoExc
                    /\ loc' = [loc EXCEPT !.shifted_val = Arr(data_shape, shifted_val)]
    /\ UNCHANGED <<img, parts>>

NextOffset == \/ CreateSyntheticOffset
              \/ ApplySyntheticOffset

SpecOffset == InitOffset /\ [][NextOffset]_vars

(***************************************************************************)
(* The threshold partition of one fixed sample, taken at several sigma     *)
(* levels (lines 74-76 and 201-203 on the same density values).            *)
(***************************************************************************)
Samples == UNION {[1..n -> DensVals] : n \in 1..MaxPix}

InitSigma == /\ pc = "thres"
             /\ fn = "none"
             /\ args = NoArgs
             /\ \E z \in Samples : loc = [EmptyLoc EXCEPT !.z = z]
             /\ exc = NoExc
             /\ img = NoImg
             /\ parts = [s \in Sigmas |-> <<>>]

Threshold ==
    /\ pc = "thres"
    /\ \E s \in Sigmas : parts' = [parts EXCEPT ![s] = ThresIdx(loc.z, s)]
    /\ UNCHANGED <<pc, fn, args, loc, exc, img>>

NextSigma == Threshold

SpecSigma == InitSigma /\ [][NextSigma]_vars

(***************************************************************************)
(* Properties                                                              *)
(***************************************************************************)
OffIceVector == fn = "off_ice_errors" /\ loc.case = 1
OffIceScalar == fn = "off_ice_errors" /\ loc.case = 2
SynRunning == fn = "syn_shift_errors" /\ pc \in {"syn_kde", "syn_thres", "returned"}
Ended == pc \in {"returned", "raised"}
Indices(a) == 1..Len(a)

\* C1: in vector mode, once the no-data values are removed, vx and vy have
\* equal length, hold no sentinel, and vx[i], vy[i] come from the same pixel
\* (pixel p carries p in x and -p in y).
C1_JointNoDataRemoval ==
    (OffIceVector /\ pc = "sample") =>
        /\ Len(loc.vx) = Len(loc.vy)
        /\ \A i \in Indices(loc.vx) :
              /\ loc.vx[i] # NoData
              /\ i <= Len(loc.vy) => (loc.vy[i] # NoData /\ loc.vy[i] = 0 - loc.vx[i])

\* C2: in syn_shift_errors no position where vx or vy holds the sentinel
\* contributes an observation, and the four filtered arrays stay aligned:
\* observation i, taken from pixel p = vx[i], carries that pixel's vy and
\* reference values.
C2_NoDataNeverParticipates ==
    SynRunning =>
        /\ Len(loc.diff_vx) = Len(loc.vx) /\ Len(loc.diff_vy) = Len(loc.vx)
        /\ \A i \in Indices(loc.vx) :
              /\ loc.vx[i] # NoData /\ loc.vy[i] # NoData
              /\ loc.vy[i] = args.vy.val[loc.vx[i]]
              /\ loc.ref_vx[i] = args.ref_vx.val[loc.vx[i]]
              /\ loc.ref_vy[i] = args.ref_vy.val[loc.vx[i]]

ReturnedX == IF fn = "off_ice_errors" THEN loc.vx ELSE loc.diff_vx
ReturnedY == IF fn = "off_ice_errors" THEN loc.vy ELSE loc.diff_vy
Thresholded == pc = "returned" /\ (OffIceVector \/ fn = "syn_shift_errors")

\* C3: what off_ice_errors (vector mode) and syn_shift_errors return is a
\* partition as long as the observations and the densities, with index i an
\* inlier exactly when z[i] >= max(z) / e^(sigma^2/2); a density equal to
\* the threshold is an inlier.
C3_ThresholdPartition ==
    Thresholded =>
        /\ Len(loc.thres_idx) = Len(loc.z)
        /\ Len(ReturnedX) = Len(loc.z) /\ Len(ReturnedY) = Len(loc.z)
        /\ \A i \in Indices(loc.z) :
              /\ loc.thres_idx[i] \in BOOLEAN
              /\ loc.thres_idx[i] <=>
                   ~(loc.z[i] * ThresMultiplier(args.thres_sigma) < SeqMax(loc.z) * 1000)
              /\ loc.z[i] = SeqMax(loc.z) => loc.thres_idx[i]

C3_Witness ==
    /\ Thresholded /\ OffIceVector
    /\ \E i, j \in Indices(loc.z) :
          /\ loc.z[i] * ThresMultiplier(args.thres_sigma) = SeqMax(loc.z) * 1000
          /\ loc.thres_idx[i] /\ ~loc.thres_idx[j]

C3_WitnessSyn ==
    /\ Thresholded /\ fn = "syn_shift_errors"
    /\ \E i, j \in Indices(loc.z) : loc.thres_idx[i] /\ ~loc.thres_idx[j]

FilteredVx == DropNoData(args.vxfile.val)
FilteredVy == DropNoData(args.vyfile.val)
Sampled == OffIceVector /\ pc \in {"kde", "thres", "returned"}

C4_WitnessSmall ==
    /\ Sampled /\ pc = "returned"
    /\ Len(FilteredVx) = args.max_n /\ loc.vx_full = None

EmptySample ==
    \/ OffIceVector /\ pc # "sample" /\ Len(loc.vx) = 0 /\ Len(loc.vy) = 0
    \/ /\ fn = "syn_shift_errors"
       /\ args.ref_vx.some /\ args.vx.some /\ args.ref_vy.some /\ args.vy.some
       /\ Len(loc.diff_vx) = 0

\* C5: an estimator whose error sample has no observation ends with a
\* domain error raised by the module itself.
C5_EmptySampleDomainError ==
    (EmptySample /\ Ended) => (pc = "raised" /\ exc.origin = "module")

Created == fn = "create_synthetic_offset" /\ pc = "returned"
Rows == 0..(img.height - 1)
Cols == 0..(img.width - 1)

\* C6: create_synthetic_offset returns two arrays of the image's shape with,
\* at pixel (r, c), bi = r div block_size and bj = c div block_size:
\* subpixel x = 0.1*bj + 0.1, y = -0.1*bi - 0.1; multipixel x = 1 + bj,
\* y = -1 - bi (values below in tenths of a pixel).  Hence x depends on the
\* column only, y on the row only, and both are constant inside a block.
C6_BlockOffsets ==
    Created =>
        /\ loc.shift_arx.shape = <<img.height, img.width>>
        /\ loc.shift_ary.shape = <<img.height, img.width>>
        /\ Len(loc.shift_arx.data) = img.height * img.width
        /\ Len(loc.shift_ary.data) = img.height * img.width
        /\ \A r \in Rows, c \in Cols :
              LET bi == r \div args.block_size
                  bj == c \div args.block_size
              IN IF args.mode = "subpixel"
                 THEN /\ At(loc.shift_arx, r, c) = bj + 1
                      /\ At(loc.shift_ary, r, c) = 0 - bi - 1
                 ELSE /\ At(loc.shift_arx, r, c) = 10 * (1 + bj)
                      /\ At(loc.shift_ary, r, c) = 10 * (0 - 1 - bi)
        /\ \A r1, r2 \in Rows, c1, c2 \in Cols :
              /\ c1 = c2 => At(loc.shift_arx, r1, c1) = At(loc.shift_arx, r2, c2)
              /\ r1 = r2 => At(loc.shift_ary, r1, c1) = At(loc.shift_ary, r2, c2)
              /\ (r1 \div args.block_size = r2 \div args.block_size
                  /\ c1 \div args.block_size = c2 \div args.block_size)
                 => /\ At(loc.shift_arx, r1, c1) = At(loc.shift_arx, r2, c2)
                    /\ At(loc.shift_ary, r1, c1) = At(loc.shift_ary, r2, c2)

\* block size 2, pixel (2, 2): 0.2 / -0.2, and pixel (0, 0): 0.1 / -0.1
C6_Witness ==
    /\ Created /\ args.mode = "subpixel" /\ args.block_size = 2
    /\ img.height >= 3 /\ img.width >= 3
    /\ At(loc.shift_arx, 2, 2) = 2 /\ At(loc.shift_ary, 2, 2) = 0 - 2
    /\ At(loc.shift_arx, 0, 0) = 1 /\ At(loc.shift_ary, 0, 0) = 0 - 1

C6_WitnessMulti ==
    /\ Created /\ args.mode = "multipixel" /\ args.block_size = 2
    /\ img.height >= 3 /\ img.width >= 2
    /\ At(loc.shift_arx, 2, 1) = 10 /\ At(loc.shift_ary, 2, 1) = 0 - 20

Applied == fn = "apply_synthetic_offset"
ShapesMatch == /\ args.shift_arx.shape = <<img.height, img.width>>
               /\ args.shift_ary.shape = <<img.height, img.width>>

\* C7: apply_synthetic_offset ends with an invalid-argument error whenever
\* a shift array does not have exactly the image's shape.
C7_ShapeMismatchRejected ==
    (Applied /\ Ended /\ ~ShapesMatch) =>
        (pc = "raised" /\ loc.shifted_val = NoArr)

Done(s) == parts[s] # <<>>
InlierCount(s) == Cardinality({i \in Indices(parts[s]) : parts[s][i]})

\* C8: for one sample with fixed densities, an observation that is an
\* inlier at sigma s1 is an inlier at every sigma s2 >= s1.
C8_InliersMonotoneInSigma ==
    \A s1, s2 \in DOMAIN parts :
        (0 <= s1 /\ s1 <= s2 /\ Done(s1) /\ Done(s2)) =>
            /\ \A i \in Indices(loc.z) : parts[s1][i] => parts[s2][i]
            /\ InlierCount(s1) <= InlierCount(s2)

C8_Witness ==
    \E s1, s2 \in DOMAIN parts :
        /\ s1 < s2 /\ Done(s1) /\ Done(s2)
        /\ InlierCount(s1) < InlierCount(s2)

Src(r, c) == img.data[r * img.width + c + 1]
Near(x, n) == {k \in 0..(n - 1) : 10 * k - 10 < Clamp(x, 0, 10 * (n - 1))
                                   /\ Clamp(x, 0, 10 * (n - 1)) < 10 * k + 10}
AppliedOk == Applied /\ pc = "returned" /\ ShapesMatch

\* C9: apply_synthetic_offset returns an array of the image's shape; output
\* pixel (r, c) is the image sampled at (r + y-shift, c + x-shift) with the
\* coordinate clamped to the image: it lies between the smallest and the
\* largest of the pixels around the clamped coordinate, equals
\* source[clamp(r + y-shift), clamp(c + x-shift)] when both shifts are whole
\* pixels, and a constant image comes back unchanged.
C9_ClampedResampling ==
    AppliedOk =>
        /\ loc.shifted_val.shape = <<img.height, img.width>>
        /\ Len(loc.shifted_val.data) = img.height * img.width
        /\ \A r \in Rows, c \in Cols :
              LET sy == At(args.shift_ary, r, c)
                  sx == At(args.shift_arx, r, c)
                  out == At(loc.shifted_val, r, c)
              IN /\ \E a \in Near(10 * r + sy, img.height), b \in Near(10 * c + sx, img.width) :
                        100 * Src(a, b) <= out
                 /\ \E a \in Near(10 * r + sy, img.height), b \in Near(10 * c + sx, img.width) :
                        out <= 100 * Src(a, b)
                 /\ (sy % 10 = 0 /\ sx % 10 = 0) =>
                        out = 100 * Src(Clamp(r + sy \div 10, 0, img.height - 1),
                                        Clamp(c + sx \div 10, 0, img.width - 1))
                 /\ (\A k \in 1..Len(img.data) : img.data[k] = img.data[1]) =>
                        out = 100 * img.data[1]

\* whole-pixel shifts that leave the image on some side, on a varying image
C9_Witness ==
    /\ AppliedOk
    /\ \E k \in 1..Len(img.data) : img.data[k] # img.data[1]
    /\ \E r \in Rows, c \in Cols :
          /\ At(args.shift_ary, r, c) % 10 = 0 /\ At(args.shift_arx, r, c) % 10 = 0
          /\ 10 * r + At(args.shift_ary, r, c) < 0
          /\ 10 * c + At(args.shift_arx, r, c) > 10 * (img.width - 1)
          /\ At(loc.shifted_val, r, c) # 100 * Src(r, c)

C9_WitnessFlat ==
    /\ AppliedOk /\ args.spline_order = 1
    /\ img.height >= 2 /\ img.width >= 2
    /\ \A k \in 1..Len(img.data) : img.data[k] = 7
    /\ \E r \in Rows, c \in Cols : At(args.shift_arx, r, c) % 10 # 0
    /\ \A r \in Rows, c \in Cols : At(loc.shifted_val, r, c) = 700

\* C10: in scalar mode the call completes for every plot flag and ax and
\* returns the no-data-filtered sample v with the histogram input v^2,
\* without densities or thresholding; an argument error is raised only when
\* neither vfile nor vxfile + vyfile is given.
C10_ScalarModeCompletes ==
    /\ (OffIceScalar /\ Ended) =>
          /\ pc = "returned"
          /\ loc.v = DropNoData(args.vfile.val)
          /\ loc.bins = [i \in Indices(loc.v) |-> loc.v[i] * loc.v[i]]
          /\ loc.z = <<>> /\ loc.thres_idx = <<>>
    /\ (fn = "off_ice_errors" /\ pc = "raised" /\ exc.type = "TypeError") =>
          (~args.vfile.some /\ ~(args.vxfile.some /\ args.vyfile.some))

====
